---- MODULE Spec2Model ----
(***************************************************************************)
(* A model of simc_support/self_update.py: main() runs casc() (one fetch   *)
(* subprocess per locale, its standard output relayed line by line) and    *)
(* then update_trinkets() (dbc(): one extractor subprocess per locale; the *)
(* load-and-filter loop; the merge loop; the dump to trinkets.json).       *)
(***************************************************************************)
EXTENDS Integers, Sequences, FiniteSets, TLC

(***************************************************************************)
(* Bounds of the model.                                                    *)
(***************************************************************************)
\* How many of the nine locales of _LOCALES a run iterates over.
NumLocales == 3
\* Capacity of an operating-system pipe, counted in lines (chunks).
PipeCap == 1
\* The most writes (to stdout or stderr) a fetch subprocess performs.
MaxWrites == 2

(***************************************************************************)
(* Program constants.                                                      *)
(***************************************************************************)
AllLocales ==
    <<"en_US", "ko_KR", "fr_FR", "de_DE", "zh_CN", "es_ES", "ru_RU", "it_IT", "pt_PT">>

_LOCALES == SubSeq(AllLocales, 1, NumLocales)

DB_FILES == <<"ItemSparse">>

WHITELIST == {}

\* inv_type of a trinket, the rarity threshold and the item level floor.
INVTYPE_TRINKET == 12
QUALITY_RARE == 3
ILEVEL_FLOOR == 155
LEVEL_FLOOR == 50

item_keys ==
    <<"id", "race_mask", "desc", "name", "duration", "bag_family",
      "ranged_mod_range", "ilevel", "class_mask", "id_expansion", "req_level",
      "inv_type", "quality", "translations",
      "stat_alloc_1", "stat_type_1", "stat_alloc_2", "stat_type_2",
      "stat_alloc_3", "stat_type_3", "stat_alloc_4", "stat_type_4",
      "stat_alloc_5", "stat_type_5", "stat_alloc_6", "stat_type_6",
      "stat_alloc_7", "stat_type_7", "stat_alloc_8", "stat_type_8",
      "stat_alloc_9", "stat_type_9", "stat_alloc_10", "stat_type_10">>

Range(s) == {s[k] : k \in 1..Len(s)}

(***************************************************************************)
(* The decoded tables the extractor can print.  A record of ItemSparse     *)
(* carries every attribute the script reads (all of item_keys but          *)
(* "translations", which the merge adds) and, as the real table does,      *)
(* attributes the script never names ("stackable" stands for those).       *)
(***************************************************************************)
SparseKeys == Range(item_keys) \ {"translations"}

\* The localized name of item id in a locale's table.
NameOf(id, locale) == <<"name", id, locale>>

Item(id, locale, inv_type, quality, ilevel, extra) ==
    [k \in SparseKeys \cup (IF extra THEN {"stackable"} ELSE {}) |->
        CASE k = "id" -> id
          [] k = "name" -> NameOf(id, locale)
          [] k = "inv_type" -> inv_type
          [] k = "quality" -> quality
          [] k = "ilevel" -> ilevel
          [] k = "req_level" -> LEVEL_FLOOR
          [] OTHER -> 0]

\* The tables of the model: each row is <<id, inv_type, quality, ilevel, extra>>.
TableRows ==
    << << <<1, 12, 3, 155, FALSE>> >>,
       << <<1, 12, 4, 154, FALSE>>, <<2, 12, 3, 200, TRUE>> >>,
       << <<2, 12, 4, 155, FALSE>>, <<1, 12, 3, 160, TRUE>> >>,
       << <<1, 13, 4, 200, FALSE>>, <<2, 12, 2, 200, FALSE>> >> >>

TableOf(rows, locale) ==
    [k \in 1..Len(rows) |->
        Item(rows[k][1], locale, rows[k][2], rows[k][3], rows[k][4], rows[k][5])]

\* What dbc_extract.py can print for a locale: one of the tables, in that locale.
Tables(locale) == {TableOf(TableRows[n], locale) : n \in 1..Len(TableRows)}

\* A file of the file system: absent, or its content and whether this run or
\* an earlier one wrote it.
Absent == [exists |-> FALSE]

EarlierFile(content) == [exists |-> TRUE, run |-> "earlier", content |-> content]

WrittenFile(content) == [exists |-> TRUE, run |-> "this", content |-> content]

\* The compiled table an earlier run left for a locale.
EarlierTable(locale) == TableOf(TableRows[3], locale)

\* A trinkets.json left by an earlier run.
OldJson == EarlierFile(<<>>)

(***************************************************************************)
(* What a fetch subprocess does: a sequence of writes, "line" an ASCII     *)
(* line on stdout, "bad" a line on stdout that is not ASCII, "err" a chunk *)
(* on stderr.                                                              *)
(***************************************************************************)
Writes == {"line", "bad", "err"}

Scripts == UNION {[1..n -> Writes] : n \in 0..MaxWrites}

NoProc == [kind |-> "none"]

Exceptions ==
    {"SystemError@get_python", "UnicodeDecodeError@casc",
     "FileNotFoundError@dbc.listdir", "FileNotFoundError@update_trinkets.open"}

VARIABLES
    args,           \* the parsed flags: no_load, no_extract
    has_python,     \* whether a Python 3 interpreter answers on the command line
    pc,             \* where main() is, or the exception that ended it
    i,              \* the 1-based position of the current loop in _LOCALES
    process,        \* the subprocess the script holds: its pipes and its state
    alive,          \* the subprocesses started and not yet exited
    exit_code,      \* the exit code of every subprocess that has exited
    started,        \* the locales a fetch subprocess was started for, in order
    extracted,      \* the locales an extractor subprocess was started for
    relayed,        \* lines of the current fetch subprocess passed to the logger
    errlog,         \* the logger.error calls, in order
    outdir,         \* the locales whose <output>/<locale> holds fetched content
    compiled,       \* <output>/compiled/<locale>/ItemSparse.json per locale
    data,           \* update_trinkets' data: locale -> filtered records
    trinkets,       \* update_trinkets' trinkets
    trinkets_json   \* data_files/trinkets.json

vars ==
    <<args, has_python, pc, i, process, alive, exit_code, started, extracted,
      relayed, errlog, outdir, compiled, data, trinkets, trinkets_json>>

LocaleSet == Range(_LOCALES)

Init ==
    /\ args \in [no_load : BOOLEAN, no_extract : BOOLEAN]
    /\ has_python \in BOOLEAN
    /\ pc = "casc"
    /\ i = 1
    /\ process = NoProc
    /\ alive = {}
    /\ exit_code = <<>>
    /\ started = <<>>
    /\ extracted = <<>>
    /\ relayed = 0
    /\ errlog = <<>>
    \* the output directory is empty, or holds what an earlier run left
    /\ \E earlier \in BOOLEAN :
        /\ outdir = IF earlier THEN LocaleSet ELSE {}
        /\ compiled =
              [l \in LocaleSet |->
                  IF earlier THEN EarlierFile(EarlierTable(l)) ELSE Absent]
    /\ data = <<>>
    /\ trinkets = <<>>
    \* the repository ships a data_files/trinkets.json
    /\ trinkets_json = OldJson

(***************************************************************************)
(* casc                                                                    *)
(***************************************************************************)
CascSkip ==
    /\ pc = "casc"
    /\ args.no_load
    /\ pc' = "update_trinkets"
    /\ UNCHANGED <<args, has_python, i, process, alive, exit_code, started,
                   extracted, relayed, errlog, outdir, compiled, data, trinkets,
                   trinkets_json>>

CascNoPython ==
    /\ pc = "casc"
    /\ ~args.no_load
    /\ ~has_python
    /\ pc' = "SystemError@get_python"
    /\ UNCHANGED <<args, has_python, i, process, alive, exit_code, started,
                   extracted, relayed, errlog, outdir, compiled, data, trinkets,
                   trinkets_json>>

CascBegin ==
    /\ pc = "casc"
    /\ ~args.no_load
    /\ has_python
    /\ pc' = "casc_loop"
    /\ i' = 1
    /\ UNCHANGED <<args, has_python, process, alive, exit_code, started,
                   extracted, relayed, errlog, outdir, compiled, data, trinkets,
                   trinkets_json>>

\* subprocess.Popen(..., stdout=PIPE, stderr=PIPE) for the next locale.
Popen ==
    /\ pc = "casc_loop"
    /\ i <= Len(_LOCALES)
    /\ \E script \in Scripts, rc \in {0, 1} :
        process' = [kind |-> "casc", locale |-> _LOCALES[i], script |-> script,
                    lines |-> Len(SelectSeq(script, LAMBDA w : w # "err")),
                    rc |-> rc, out |-> <<>>, err |-> 0,
                    closed |-> FALSE, exited |-> FALSE]
    /\ alive' = alive \cup {<<"casc", _LOCALES[i]>>}
    /\ started' = Append(started, _LOCALES[i])
    /\ relayed' = 0
    /\ pc' = "relay"
    /\ UNCHANGED <<args, has_python, i, exit_code, extracted, errlog, outdir,
                   compiled, data, trinkets, trinkets_json>>

\* The for loop of casc is exhausted: casc returns (its locals are gone) and
\* main calls update_trinkets.
CascReturn ==
    /\ pc = "casc_loop"
    /\ i > Len(_LOCALES)
    /\ pc' = "update_trinkets"
    /\ process' = NoProc
    /\ relayed' = 0
    /\ i' = 1
    /\ UNCHANGED <<args, has_python, alive, exit_code, started, extracted,
                   errlog, outdir, compiled, data, trinkets, trinkets_json>>

\* The fetch subprocess writes: a write to a full pipe blocks it.
ProcWrite ==
    /\ process.kind = "casc"
    /\ ~process.closed
    /\ process.script # <<>>
    /\ LET w == Head(process.script) IN
        IF w = "err"
        THEN /\ process.err < PipeCap
             /\ process' = [process EXCEPT !.err = @ + 1, !.script = Tail(@)]
        ELSE /\ Len(process.out) < PipeCap
             /\ process' = [process EXCEPT !.out = Append(@, w), !.script = Tail(@)]
    /\ UNCHANGED <<args, has_python, pc, i, alive, exit_code, started, extracted,
                   relayed, errlog, outdir, compiled, data, trinkets,
                   trinkets_json>>

\* The fetch subprocess has written everything: its end of the pipes closes.
ProcClose ==
    /\ process.kind = "casc"
    /\ ~process.closed
    /\ process.script = <<>>
    /\ process' = [process EXCEPT !.closed = TRUE]
    /\ UNCHANGED <<args, has_python, pc, i, alive, exit_code, started, extracted,
                   relayed, errlog, outdir, compiled, data, trinkets,
                   trinkets_json>>

\* The fetch subprocess exits; with exit code 0 it has filled <output>/<locale>.
ProcExit ==
    /\ process.kind = "casc"
    /\ process.closed
    /\ ~process.exited
    /\ process' = [process EXCEPT !.exited = TRUE]
    /\ alive' = alive \ {<<"casc", process.locale>>}
    /\ exit_code' = Append(exit_code, <<"casc", process.locale, process.rc>>)
    /\ outdir' = IF process.rc = 0 THEN outdir \cup {process.locale} ELSE outdir
    /\ UNCHANGED <<args, has_python, pc, i, started, extracted, relayed, errlog,
                   compiled, data, trinkets, trinkets_json>>

\* output = process.stdout.readline() returned a line and it decodes as ASCII.
RelayLine ==
    /\ pc = "relay"
    /\ process.out # <<>>
    /\ Head(process.out) = "line"
    /\ process' = [process EXCEPT !.out = Tail(@)]
    /\ relayed' = relayed + 1
    /\ UNCHANGED <<args, has_python, pc, i, alive, exit_code, started, extracted,
                   errlog, outdir, compiled, data, trinkets, trinkets_json>>

\* readline() returned a line and .decode("ascii") raises on it.
RelayDecodeError ==
    /\ pc = "relay"
    /\ process.out # <<>>
    /\ Head(process.out) = "bad"
    /\ process' = [process EXCEPT !.out = Tail(@)]
    /\ pc' = "UnicodeDecodeError@casc"
    /\ UNCHANGED <<args, has_python, i, alive, exit_code, started, extracted,
                   relayed, errlog, outdir, compiled, data, trinkets,
                   trinkets_json>>

\* A variant that breaks on output == b"" alone.
LoopBreaksNoPoll(p) == p.out = <<>> /\ p.closed

\* output == b"" and process.poll() is not None: readline() returns b"" at end
\* of file only, i.e. once the pipe is drained and its writing end is closed.

LoopBreaks(p) == p.out = <<>> /\ p.closed /\ p.exited

\* process.poll(): None (here <<>>) while the subprocess runs, else its exit code.
Poll(p) == IF p.exited THEN <<p.rc>> ELSE <<>>

FetchError(locale) == <<"Error occured while loading", locale>>

\* A variant that gives up on the remaining locales after a failed fetch.
RelayEOF_abort ==
    /\ pc = "relay"
    /\ LoopBreaks(process)
    /\ errlog' = IF Poll(process) # <<0>>
                 THEN Append(errlog, FetchError(process.locale))
                 ELSE errlog
    /\ i' = i + 1
    /\ pc' = IF Poll(process) # <<0>> THEN "update_trinkets" ELSE "casc_loop"
    /\ UNCHANGED <<args, has_python, process, alive, exit_code, started,
                   extracted, relayed, outdir, compiled, data, trinkets,
                   trinkets_json>>

\* The relay loop breaks; rc = process.poll(); an error is logged if rc != 0;
\* the for loop goes to the next locale.
RelayEOF ==
    /\ pc = "relay"
    /\ LoopBreaks(process)
    /\ errlog' = IF Poll(process) # <<0>>
                 THEN Append(errlog, FetchError(process.locale))
                 ELSE errlog
    /\ i' = i + 1
    /\ pc' = "casc_loop"
    /\ UNCHANGED <<args, has_python, process, alive, exit_code, started,
                   extracted, relayed, outdir, compiled, data, trinkets,
                   trinkets_json>>

(***************************************************************************)
(* dbc                                                                     *)
(***************************************************************************)
DbcSkip ==
    /\ pc = "update_trinkets"
    /\ args.no_extract
    /\ pc' = "load"
    /\ i' = 1
    /\ UNCHANGED <<args, has_python, process, alive, exit_code, started,
                   extracted, relayed, errlog, outdir, compiled, data, trinkets,
                   trinkets_json>>

DbcNoPython ==
    /\ pc = "update_trinkets"
    /\ ~args.no_extract
    /\ ~has_python
    /\ pc' = "SystemError@get_python"
    /\ UNCHANGED <<args, has_python, i, process, alive, exit_code, started,
                   extracted, relayed, errlog, outdir, compiled, data, trinkets,
                   trinkets_json>>

\* wow_version = os.listdir(os.path.join(args.output, _LOCALES[0]))[0] raises
\* when the first locale's directory is missing or empty.
HasVersion == _LOCALES[1] \in outdir

DbcNoVersion ==
    /\ pc = "update_trinkets"
    /\ ~args.no_extract
    /\ has_python
    /\ ~HasVersion
    /\ pc' = "FileNotFoundError@dbc.listdir"
    /\ UNCHANGED <<args, has_python, i, process, alive, exit_code, started,
                   extracted, relayed, errlog, outdir, compiled, data, trinkets,
                   trinkets_json>>

DbcBegin ==
    /\ pc = "update_trinkets"
    /\ ~args.no_extract
    /\ has_python
    /\ HasVersion
    /\ pc' = "dbc_loop"
    /\ i' = 1
    /\ UNCHANGED <<args, has_python, process, alive, exit_code, started,
                   extracted, relayed, errlog, outdir, compiled, data, trinkets,
                   trinkets_json>>

\* subprocess.run(cmd, stdout=PIPE, stderr=PIPE) starts the extractor on
\* <output>/<locale>/<wow_version>/DBFilesClient; it can only succeed on a
\* directory the fetch stage has filled.
Run ==
    /\ pc = "dbc_loop"
    /\ i <= Len(_LOCALES)
    /\ \E rc \in {0, 1} :
        /\ rc = 0 => _LOCALES[i] \in outdir
        /\ \E stdout \in (IF rc = 0 THEN Tables(_LOCALES[i]) ELSE {<<>>}) :
            process' = [kind |-> "dbc", locale |-> _LOCALES[i], rc |-> rc,
                        stdout |-> stdout]
    /\ alive' = alive \cup {<<"dbc", _LOCALES[i]>>}
    /\ extracted' = Append(extracted, _LOCALES[i])
    /\ pc' = "dbc_run"
    /\ UNCHANGED <<args, has_python, i, exit_code, started, relayed, errlog,
                   outdir, compiled, data, trinkets, trinkets_json>>

ExtractError(file, locale) == <<"Error occured while extracting", file, locale>>

\* A variant that writes the captured output whatever the exit code.
WriteCompiled_always(files, p) == [files EXCEPT ![p.locale] = WrittenFile(p.stdout)]

\* What the branch on process.returncode leaves in the compiled files.
WriteCompiled(files, p) ==
    IF p.rc # 0 THEN files ELSE [files EXCEPT ![p.locale] = WrittenFile(p.stdout)]

\* subprocess.run returns once the extractor has exited; the branch on
\* process.returncode logs the error or writes the compiled file.
RunFinish ==
    /\ pc = "dbc_run"
    /\ alive' = alive \ {<<"dbc", process.locale>>}
    /\ exit_code' = Append(exit_code, <<"dbc", process.locale, process.rc>>)
    /\ errlog' = IF process.rc # 0
                 THEN Append(errlog, ExtractError(DB_FILES[1], process.locale))
                 ELSE errlog
    /\ compiled' = WriteCompiled(compiled, process)
    /\ i' = i + 1
    /\ pc' = "dbc_loop"
    /\ UNCHANGED <<args, has_python, process, started, extracted, relayed,
                   outdir, data, trinkets, trinkets_json>>

\* The loops of dbc are exhausted: dbc returns (its locals are gone) and
\* update_trinkets starts its load loop.
DbcReturn ==
    /\ pc = "dbc_loop"
    /\ i > Len(_LOCALES)
    /\ pc' = "load"
    /\ process' = NoProc
    /\ i' = 1
    /\ UNCHANGED <<args, has_python, alive, exit_code, started, extracted,
                   relayed, errlog, outdir, compiled, data, trinkets,
                   trinkets_json>>

(***************************************************************************)
(* update_trinkets: the filter                                             *)
(***************************************************************************)
is_trinket(item) == item["inv_type"] = INVTYPE_TRINKET

is_gte_rare(item) == item["quality"] >= QUALITY_RARE

is_gte_level(item) == item["req_level"] >= LEVEL_FLOOR

\* A variant with a strict comparison.
is_gte_ilevel_strict(item) == item["ilevel"] > ILEVEL_FLOOR

is_gte_ilevel(item) == item["ilevel"] >= ILEVEL_FLOOR

is_shadowlands(item) == is_gte_ilevel(item)

is_whitelisted(item) == item["id"] \in WHITELIST \/ item["name"] \in WHITELIST

\* a and b and c or d
Selected(item) ==
    (is_trinket(item) /\ is_gte_rare(item) /\ is_shadowlands(item))
        \/ is_whitelisted(item)

Filter(items) == SelectSeq(items, Selected)

\* open(<compiled>/<locale>/ItemSparse.json) and json.load, then the filter.
Load ==
    /\ pc = "load"
    /\ i <= Len(_LOCALES)
    /\ compiled[_LOCALES[i]].exists
    /\ data' = (_LOCALES[i] :> Filter(compiled[_LOCALES[i]].content)) @@ data
    /\ i' = i + 1
    /\ UNCHANGED <<args, has_python, pc, process, alive, exit_code, started,
                   extracted, relayed, errlog, outdir, compiled, trinkets,
                   trinkets_json>>

\* A variant that takes a missing file for an empty table and goes on.
LoadMissing_skip ==
    /\ pc = "load"
    /\ i <= Len(_LOCALES)
    /\ ~compiled[_LOCALES[i]].exists
    /\ data' = (_LOCALES[i] :> <<>>) @@ data
    /\ i' = i + 1
    /\ UNCHANGED <<args, has_python, pc, process, alive, exit_code, started,
                   extracted, relayed, errlog, outdir, compiled, trinkets,
                   trinkets_json>>

\* open() of a file that is not there raises, and nothing catches it.
LoadMissing ==
    /\ pc = "load"
    /\ i <= Len(_LOCALES)
    /\ ~compiled[_LOCALES[i]].exists
    /\ pc' = "FileNotFoundError@update_trinkets.open"
    /\ UNCHANGED <<args, has_python, i, process, alive, exit_code, started,
                   extracted, relayed, errlog, outdir, compiled, data, trinkets,
                   trinkets_json>>

LoadDone ==
    /\ pc = "load"
    /\ i > Len(_LOCALES)
    /\ pc' = "merge"
    /\ i' = 1
    /\ UNCHANGED <<args, has_python, process, alive, exit_code, started,
                   extracted, relayed, errlog, outdir, compiled, data, trinkets,
                   trinkets_json>>

(***************************************************************************)
(* update_trinkets: the merge                                              *)
(***************************************************************************)
\* item[key] = value on a dict.
SetItem(item, key, value) ==
    [k \in DOMAIN item \cup {key} |-> IF k = key THEN value ELSE item[k]]

\* new_item: the copy restricted to item_keys (built, and never used).
new_item(item) == [k \in Range(item_keys) |-> item[k]]

\* i == 0: item["translations"] = {locale: item["name"]}; trinkets.append(item)
Seed(items, locale) ==
    [k \in 1..Len(items) |->
        SetItem(items[k], "translations", (locale :> items[k]["name"]))]

\* The last record of items with identifier id (each match overwrites).
LastWithId(items, id) ==
    items[CHOOSE k \in 1..Len(items) :
            /\ items[k]["id"] = id
            /\ \A m \in (k + 1)..Len(items) : items[m]["id"] # id]

\* A variant that stores the merged record's own name under the locale.
Enrich_ownname(list, items, locale) ==
    [k \in 1..Len(list) |->
        IF \E m \in 1..Len(items) : items[m]["id"] = list[k]["id"]
        THEN [list[k] EXCEPT !["translations"] = (locale :> list[k]["name"]) @@ @]
        ELSE list[k]]

\* A variant that also appends the records no merged record matches.
Enrich_append(list, items, locale) ==
    [k \in 1..Len(list) |->
        IF \E m \in 1..Len(items) : items[m]["id"] = list[k]["id"]
        THEN [list[k] EXCEPT !["translations"] =
                 (locale :> LastWithId(items, list[k]["id"])["name"]) @@ @]
        ELSE list[k]]
    \o Seed(SelectSeq(items,
                      LAMBDA it : \A k \in 1..Len(list) : list[k]["id"] # it["id"]),
            locale)

\* i > 0: for item in data[locale]: for trinket in trinkets:
\*            if trinket["id"] == item["id"]:
\*                trinket["translations"][locale] = item["name"]
Enrich(list, items, locale) ==
    [k \in 1..Len(list) |->
        IF \E m \in 1..Len(items) : items[m]["id"] = list[k]["id"]
        THEN [list[k] EXCEPT !["translations"] =
                 (locale :> LastWithId(items, list[k]["id"])["name"]) @@ @]
        ELSE list[k]]

\* The records appended to trinkets are the very records of data[_LOCALES[0]]:
\* what the merge writes into one is seen through the other.
MergeSeed ==
    /\ pc = "merge"
    /\ i = 1
    /\ trinkets' = trinkets \o Seed(data[_LOCALES[1]], _LOCALES[1])
    /\ data' = [data EXCEPT ![_LOCALES[1]] = Seed(@, _LOCALES[1])]
    /\ i' = i + 1
    /\ UNCHANGED <<args, has_python, pc, process, alive, exit_code, started,
                   extracted, relayed, errlog, outdir, compiled, trinkets_json>>

MergeEnrich ==
    /\ pc = "merge"
    /\ 1 < i
    /\ i <= Len(_LOCALES)
    /\ trinkets' = Enrich(trinkets, data[_LOCALES[i]], _LOCALES[i])
    /\ data' = [data EXCEPT ![_LOCALES[1]] = trinkets']
    /\ i' = i + 1
    /\ UNCHANGED <<args, has_python, pc, process, alive, exit_code, started,
                   extracted, relayed, errlog, outdir, compiled, trinkets_json>>

\* json.dump(trinkets, f) into data_files/trinkets.json
Dump ==
    /\ pc = "merge"
    /\ i > Len(_LOCALES)
    /\ trinkets_json' = WrittenFile(trinkets)
    /\ pc' = "done"
    /\ UNCHANGED <<args, has_python, i, process, alive, exit_code, started,
                   extracted, relayed, errlog, outdir, compiled, data, trinkets>>

Next ==
    \/ CascSkip
    \/ CascNoPython
    \/ CascBegin
    \/ Popen
    \/ CascReturn
    \/ ProcWrite
    \/ ProcClose
    \/ ProcExit
    \/ RelayLine
    \/ RelayDecodeError
    \/ RelayEOF
    \/ DbcSkip
    \/ DbcNoPython
    \/ DbcNoVersion
    \/ DbcBegin
    \/ Run
    \/ RunFinish
    \/ DbcReturn
    \/ Load
    \/ LoadMissing
    \/ LoadDone
    \/ MergeSeed
    \/ MergeEnrich
    \/ Dump

Spec == Init /\ [][Next]_vars

(***************************************************************************)
(* Properties                                                              *)
(***************************************************************************)
Seed0 == _LOCALES[1]

Ids(items) == [k \in 1..Len(items) |-> items[k]["id"]]

IsPrefix(s, t) == Len(s) <= Len(t) /\ s = SubSeq(t, 1, Len(s))

\* casc ran its for loop to the end and returned.
CascReturned ==
    /\ ~args.no_load
    /\ has_python
    /\ pc \notin {"casc", "casc_loop", "relay", "UnicodeDecodeError@casc"}

\* dbc ran its loops to the end and returned.
DbcReturned ==
    /\ ~args.no_extract
    /\ pc \in {"load", "merge", "done", "FileNotFoundError@update_trinkets.open"}

Exited(kind, locale, rc) == <<kind, locale, rc>> \in Range(exit_code)

\* The locales whose relay loop has ended.
Relayed ==
    IF pc \in {"relay", "UnicodeDecodeError@casc"}
    THEN SubSeq(started, 1, Len(started) - 1)
    ELSE started

FailedFetches == SelectSeq(Relayed, LAMBDA l : ~Exited("casc", l, 0))

\* C1: a fetch subprocess is started once for each locale of _LOCALES, in list
\* order, whatever the exit codes: the locales started are at every moment a
\* prefix of _LOCALES, the loop stands at the next locale whenever a relay has
\* ended and, once casc has returned, every locale was started; the errors logged
\* by casc name exactly the locales whose subprocess exited non-zero, in order.
C1_EveryLocaleFetched ==
    /\ IsPrefix(started, _LOCALES)
    /\ pc = "casc_loop" => Len(started) = i - 1
    /\ CascReturned => started = _LOCALES
    /\ SelectSeq(errlog, LAMBDA e : e[1] = "Error occured while loading")
         = [k \in 1..Len(FailedFetches) |-> FetchError(FailedFetches[k])]

\* The first locale's fetch exited non-zero and every locale was still started.
C1_Witness ==
    /\ CascReturned
    /\ Exited("casc", _LOCALES[1], 1)
    /\ Exited("casc", _LOCALES[Len(_LOCALES)], 0)
    /\ started = _LOCALES
    /\ errlog # <<>>

C3_Translations ==
    pc = "done" =>
        \A k \in 1..Len(trinkets_json.content) :
            LET t == trinkets_json.content[k]
                tr == t["translations"]
            IN  /\ Seed0 \in DOMAIN tr
                /\ tr[Seed0] = t["name"]
                /\ DOMAIN tr \subseteq LocaleSet
                /\ \A j \in 2..Len(_LOCALES) :
                    LET l == _LOCALES[j]
                        same == {m \in 1..Len(data[l]) : data[l][m]["id"] = t["id"]}
                    IN  /\ l \in DOMAIN tr <=> same # {}
                        /\ l \in DOMAIN tr =>
                              \E m \in same : tr[l] = data[l][m]["name"]

\* A merged record translated by the second locale and not by the last one.
C3_Witness ==
    /\ pc = "done"
    /\ \E k \in 1..Len(trinkets_json.content) :
        LET tr == trinkets_json.content[k]["translations"] IN
            /\ _LOCALES[2] \in DOMAIN tr
            /\ tr[_LOCALES[2]] = NameOf(trinkets_json.content[k]["id"], _LOCALES[2])
            /\ _LOCALES[Len(_LOCALES)] \notin DOMAIN tr

\* C4: once the seeding locale is merged, the identifiers of the merged records
\* are, in order, those of the seeding locale's filtered set, at every later
\* point of the merge and in the file written.
C4_MergedIdsAreSeedIds ==
    /\ (pc = "merge" /\ i >= 2) \/ pc = "done" =>
          Ids(trinkets) = Ids(SelectSeq(compiled[Seed0].content, Selected))
    /\ pc = "done" => Ids(trinkets_json.content) = Ids(trinkets)

\* A later locale's filtered set holds an identifier the seed lacks, and the
\* seed holds a record.
C4_Witness ==
    /\ pc = "done"
    /\ trinkets # <<>>
    /\ \E j \in 2..Len(_LOCALES) :
        \E m \in 1..Len(data[_LOCALES[j]]) :
            \A k \in 1..Len(trinkets) :
                trinkets[k]["id"] # data[_LOCALES[j]][m]["id"]

\* C5: every record written to trinkets.json has exactly the keys of item_keys.
C5_OnlyItemKeys ==
    pc = "done" =>
        \A k \in 1..Len(trinkets_json.content) :
            DOMAIN trinkets_json.content[k] = Range(item_keys)

\* C6: every locale's extractor is run, in order, whatever the exit codes; a
\* locale whose extractor exited non-zero has an error logged and its compiled
\* file as it was before the run; one whose extractor exited 0 has the file
\* written by this run, holding exactly the captured standard output.
C6_ExtractFailureSkipsWrite ==
    /\ IsPrefix(extracted, _LOCALES)
    /\ DbcReturned => extracted = _LOCALES
    /\ \A l \in LocaleSet :
        /\ Exited("dbc", l, 1) =>
              /\ ExtractError("ItemSparse", l) \in Range(errlog)
              /\ compiled[l] \in {Absent, EarlierFile(EarlierTable(l))}
        /\ Exited("dbc", l, 0) =>
              /\ ExtractError("ItemSparse", l) \notin Range(errlog)
              /\ compiled[l].exists
              /\ compiled[l].run = "this"
    /\ pc = "dbc_loop" /\ process.kind = "dbc" /\ process.rc = 0 =>
          compiled[process.locale] = WrittenFile(process.stdout)

\* The first locale's extractor failed over an earlier file and the last
\* locale's extractor succeeded.
C6_Witness ==
    /\ pc = "dbc_loop"
    /\ extracted = _LOCALES
    /\ Exited("dbc", _LOCALES[1], 1)
    /\ compiled[_LOCALES[1]].exists
    /\ Exited("dbc", _LOCALES[Len(_LOCALES)], 0)
    /\ process.stdout # <<>>

\* C7: the load loop never goes past a locale whose compiled file is absent:
\* the run ends there with FileNotFoundError, with the locales before it
\* loaded and no other, nothing merged and trinkets.json as it was.
C7_MissingFileIsFatal ==
    /\ pc = "load" =>
          /\ DOMAIN data = {_LOCALES[k] : k \in 1..(i - 1)}
          /\ \A k \in 1..(i - 1) : compiled[_LOCALES[k]].exists
    /\ pc \in {"merge", "done"} => \A l \in LocaleSet : compiled[l].exists
    /\ pc = "FileNotFoundError@update_trinkets.open" =>
          /\ ~compiled[_LOCALES[i]].exists
          /\ DOMAIN data = {_LOCALES[k] : k \in 1..(i - 1)}
          /\ trinkets = <<>>
          /\ trinkets_json = OldJson
    /\ pc # "done" => trinkets_json = OldJson

\* The second locale's extraction failed, no earlier file was there, and the
\* load of it ended the run after the first locale was loaded.
C7_Witness ==
    /\ pc = "FileNotFoundError@update_trinkets.open"
    /\ i = 2
    /\ Exited("dbc", _LOCALES[2], 1)
    /\ DOMAIN data = {_LOCALES[1]}

\* C8: a locale whose fetch failed, leaving no output, never ends the run
\* before the table extraction starts.
C8_FetchFailureRunContinues ==
    \A l \in LocaleSet :
        FetchError(l) \in Range(errlog) /\ l \notin outdir =>
            pc # "FileNotFoundError@dbc.listdir"

\* C9: at most one subprocess runs at a time and the script starts nothing
\* while one runs; every fetch subprocess has exited before the first
\* extractor starts, and every extractor before the first file is loaded.
C9_OneSubprocessAtATime ==
    /\ Cardinality(alive) <= 1
    /\ alive # {} => pc \in {"relay", "dbc_run", "UnicodeDecodeError@casc"}
    /\ extracted # <<>> =>
          /\ args.no_load \/ started = _LOCALES
          /\ \A l \in Range(started) : \E rc \in {0, 1} : Exited("casc", l, rc)
    /\ DOMAIN data # {} =>
          /\ alive = {}
          /\ args.no_extract \/ extracted = _LOCALES
          /\ \A l \in Range(extracted) : \E rc \in {0, 1} : Exited("dbc", l, rc)

\* The second locale's extractor runs, alone, after every fetch has exited.
C9_Witness ==
    /\ ~args.no_load
    /\ pc = "dbc_run"
    /\ alive = {<<"dbc", _LOCALES[2]>>}
    /\ Len(exit_code) = Len(_LOCALES) + 1

\* C10: the relay loop is never stuck (while the script is in it, the
\* subprocess or the script can take a step), and when it has ended the
\* subprocess has exited and every line it wrote to stdout was relayed.
C10_RelayNeverStuck ==
    /\ pc = "relay" =>
          ENABLED (ProcWrite \/ ProcClose \/ ProcExit \/ RelayLine
                      \/ RelayDecodeError \/ RelayEOF)
    /\ pc = "casc_loop" /\ process.kind = "casc" =>
          /\ process.exited
          /\ process.script = <<>>
          /\ process.out = <<>>
          /\ relayed = process.lines
====
